---- MODULE Spec2Model ----
(***************************************************************************)
(* A model of yab's main.go: main (positional arguments), runWithOptions,  *)
(* getMethodSpec, getRequest and makeRequest.                              *)
(*                                                                         *)
(* Strings are sequences of tokens; the token "." is the separator of a    *)
(* method reference.  Thrift file paths are the names in Paths.            *)
(***************************************************************************)
EXTENDS Integers, Sequences, FiniteSets, TLC

VARIABLES pc, args, flags, opts0, opts, method, transport, req, response,
          responseMap, out, trace, now, ctx, wire, bench

vars == <<pc, args, flags, opts0, opts, method, transport, req, response,
          responseMap, out, trace, now, ctx, wire, bench>>

----------------------------------------------------------------------------
(* Bounds                                                                  *)

MaxLen == 3

MaxArgs == 3

MaxTicks == 2

(* time.Second, in milliseconds.                                           *)
Second == 1000

(* The step of the clock.                                                  *)
TickMs == Second \div 2

----------------------------------------------------------------------------
(* Values                                                                  *)

(* A nil error.                                                            *)
Nil == "nil"

(* A nil pointer is the empty sequence; a pointer to v is <<v>>.           *)
NilPtr == <<>>

Ptr(v) == <<v>>

Alphabet == {"Foo", "bar", "."}

Strings(n) == UNION {[1..k -> Alphabet] : k \in 0..n}

Paths == {"", "missing.thrift", "noperm.thrift", "bad.thrift", "ok.thrift",
          "two.thrift"}

(* The file system as os.Stat sees it.                                     *)
Stat(f) ==
    CASE f = "" -> "ENOENT"
      [] f = "missing.thrift" -> "ENOENT"
      [] f = "noperm.thrift" -> "EACCES"
      [] OTHER -> "ok"

(* The services the readable, well-formed Thrift files declare.            *)
FileServices(f) ==
    CASE f = "ok.thrift" ->
           {[name |-> <<"Foo">>, methods |-> {<<"bar">>}]}
      [] f = "two.thrift" ->
           {[name |-> <<"Foo">>, methods |-> {<<"bar">>}],
            [name |-> <<"bar">>, methods |-> {<<"bar">>}]}
      [] OTHER -> {}

----------------------------------------------------------------------------
(* Collaborators of main.go                                                *)

(* thrift.Parse: the symbol table of the file, or an error.                *)
Parse(f) ==
    IF f \in {"ok.thrift", "two.thrift"}
    THEN [parsed |-> [file |-> f, services |-> FileServices(f)], err |-> Nil]
    ELSE [parsed |-> [file |-> f, services |-> {}], err |-> "ParseError"]

RECURSIVE Split(_, _)
Split(s, sep) ==
    IF s = <<>> THEN << <<>> >>
    ELSE LET rest == Split(Tail(s), sep)
         IN  IF Head(s) = sep
             THEN << <<>> >> \o rest
             ELSE << <<Head(s)>> \o Head(rest) >> \o Tail(rest)

(* thrift.SplitMethod: "Service.method", or a bare "method".               *)
SplitMethod(m) ==
    LET parts == Split(m, ".")
    IN  CASE Len(parts) = 1 -> [svc |-> <<>>, method |-> parts[1], err |-> Nil]
          [] Len(parts) = 2 -> [svc |-> parts[1], method |-> parts[2], err |-> Nil]
          [] OTHER -> [svc |-> <<>>, method |-> <<>>, err |-> "InvalidMethod"]

(* findService: the scope a method is looked up in: the named service, or  *)
(* every declared service for a bare method reference.                     *)
findService(parsed, svc) ==
    LET scope == IF svc = <<>> THEN parsed.services
                 ELSE {s \in parsed.services : s.name = svc}
    IN  IF scope = {}
        THEN [service |-> {}, err |-> "ResolutionError: service"]
        ELSE [service |-> scope, err |-> Nil]

(* findMethod: the descriptor of the method in the scope found.            *)
findMethod(service, m) ==
    LET owners == {s \in service : m \in s.methods}
    IN  CASE owners = {} -> [method |-> NilPtr, err |-> "ResolutionError: method"]
          [] Cardinality(owners) > 1 -> [method |-> NilPtr, err |-> "AmbiguousMethodError"]
          [] OTHER -> [method |-> Ptr([service |-> (CHOOSE s \in owners : TRUE).name,
                                       name |-> m, health |-> FALSE]),
                       err |-> Nil]

(* getHealthSpec: the name and the descriptor of the health method.        *)
HealthMethodName == <<"Meta", ".", "health">>

getHealthSpec ==
    [methodName |-> HealthMethodName,
     spec |-> Ptr([service |-> <<"Meta">>, name |-> <<"health">>,
                   health |-> TRUE])]

----------------------------------------------------------------------------
(* main.go                                                                 *)

errHealthAndMethod == "cannot specify method name and use --health"

(* Mutant: the test of os.IsNotExist is inverted.                          *)
isFileMissingInverted(f) == Stat(f) # "ENOENT"

isFileMissing(f) == Stat(f) = "ENOENT"

(* Mutant: the target is overwritten even when a flag set it.              *)
fromPositionalOverride(a, index, s) ==
    IF Len(a) <= index THEN s
    ELSE IF a[index + 1] # <<>> THEN a[index + 1] ELSE s

(* fromPositional: the value of *s after the call.                         *)
fromPositional(a, index, s) ==
    IF Len(a) <= index THEN s
    ELSE IF a[index + 1] # <<>> /\ s = <<>> THEN a[index + 1] ELSE s

(* getMethodSpec returns the descriptor, the error, the request options   *)
(* after the call and the calls made, in order.                            *)

(* Mutant: the error of findService is not checked.                        *)
resolveMethodNoServiceCheck(ro, parsed) ==
    LET sm == SplitMethod(ro.MethodName) IN
    IF sm.err # Nil
    THEN [spec |-> NilPtr, err |-> sm.err, ropts |-> ro,
          calls |-> <<"SplitMethod">>]
    ELSE LET fs == findService(parsed, sm.svc)
             fm == findMethod(fs.service, sm.method) IN
    IF fm.err # Nil
    THEN [spec |-> NilPtr, err |-> fm.err, ropts |-> ro,
          calls |-> <<"SplitMethod", "findService", "findMethod">>]
    ELSE [spec |-> fm.method, err |-> Nil, ropts |-> ro,
          calls |-> <<"SplitMethod", "findService", "findMethod">>]

(* main.go:191-206: the lookup in a parsed file.                           *)
resolveMethod(ro, parsed) ==
    LET sm == SplitMethod(ro.MethodName) IN
    IF sm.err # Nil
    THEN [spec |-> NilPtr, err |-> sm.err, ropts |-> ro,
          calls |-> <<"SplitMethod">>]
    ELSE LET fs == findService(parsed, sm.svc) IN
    IF fs.err # Nil
    THEN [spec |-> NilPtr, err |-> fs.err, ropts |-> ro,
          calls |-> <<"SplitMethod", "findService">>]
    ELSE LET fm == findMethod(fs.service, sm.method) IN
    IF fm.err # Nil
    THEN [spec |-> NilPtr, err |-> fm.err, ropts |-> ro,
          calls |-> <<"SplitMethod", "findService", "findMethod">>]
    ELSE [spec |-> fm.method, err |-> Nil, ropts |-> ro,
          calls |-> <<"SplitMethod", "findService", "findMethod">>]

(* main.go:179-206: the Thrift file branch.                                *)
getMethodSpecThrift(ro) ==
    IF ro.ThriftFile = ""
    THEN [spec |-> NilPtr, err |-> "specify a Thrift file using --thrift",
          ropts |-> ro, calls |-> <<>>]
    ELSE IF isFileMissing(ro.ThriftFile)
    THEN [spec |-> NilPtr, err |-> "cannot find Thrift file", ropts |-> ro,
          calls |-> <<"isFileMissing">>]
    ELSE LET p == Parse(ro.ThriftFile) IN
    IF p.err # Nil
    THEN [spec |-> NilPtr, err |-> "could not parse Thrift file", ropts |-> ro,
          calls |-> <<"isFileMissing", "Parse">>]
    ELSE LET r == resolveMethod(ro, p.parsed) IN
         [r EXCEPT !.calls = <<"isFileMissing", "Parse">> \o @]

(* Mutant: the method name is not checked in health mode.                  *)
getMethodSpecHealthNoConflict(ro) ==
    [spec |-> getHealthSpec.spec, err |-> Nil,
     ropts |-> [ro EXCEPT !.MethodName = getHealthSpec.methodName],
     calls |-> <<"getHealthSpec">>]

(* main.go:170-176: the health branch.                                     *)
getMethodSpecHealth(ro) ==
    IF ro.MethodName # <<>>
    THEN [spec |-> NilPtr, err |-> errHealthAndMethod, ropts |-> ro,
          calls |-> <<>>]
    ELSE [spec |-> getHealthSpec.spec, err |-> Nil,
          ropts |-> [ro EXCEPT !.MethodName = getHealthSpec.methodName],
          calls |-> <<"getHealthSpec">>]

(* Mutant: the Thrift file is required before the health flag is looked   *)
(* at.                                                                     *)
getMethodSpecFileFirst(ro) ==
    IF ro.ThriftFile = "" \/ isFileMissing(ro.ThriftFile)
    THEN getMethodSpecThrift(ro)
    ELSE IF ro.Health THEN getMethodSpecHealth(ro) ELSE getMethodSpecThrift(ro)

(* main.go:168-207 *)
getMethodSpec(ro) ==
    IF ro.Health THEN getMethodSpecHealth(ro) ELSE getMethodSpecThrift(ro)

(* Mutant: the request carries the method part of the descriptor.          *)
getRequestSplitName(ro, m, inputOK, encodeOK) ==
    IF ~inputOK
    THEN [req |-> NilPtr, err |-> "RequestInputError",
          calls |-> <<"getRequestInput">>]
    ELSE IF ~encodeOK
    THEN [req |-> NilPtr, err |-> "EncodingError",
          calls |-> <<"getRequestInput", "RequestToBytes">>]
    ELSE [req |-> Ptr([Method |-> m[1].name,
                       Body |-> [method |-> m, input |-> ro.RequestJSON]]),
          err |-> Nil,
          calls |-> <<"getRequestInput", "RequestToBytes">>]

(* getRequest: the request, the error and the calls made.  inputOK and     *)
(* encodeOK are the outcomes of getRequestInput and thrift.RequestToBytes. *)
getRequest(ro, m, inputOK, encodeOK) ==
    IF ~inputOK
    THEN [req |-> NilPtr, err |-> "RequestInputError",
          calls |-> <<"getRequestInput">>]
    ELSE IF ~encodeOK
    THEN [req |-> NilPtr, err |-> "EncodingError",
          calls |-> <<"getRequestInput", "RequestToBytes">>]
    ELSE [req |-> Ptr([Method |-> ro.MethodName,
                       Body |-> [method |-> m, input |-> ro.RequestJSON]]),
          err |-> Nil,
          calls |-> <<"getRequestInput", "RequestToBytes">>]

(* tchannel.NewContext(time.Second) at time t.                             *)
NewContext(t) == [start |-> t, deadline |-> t + Second, cancelled |-> FALSE]

(* The deferred cancel().                                                  *)
cancel(c) == [c EXCEPT !.cancelled = TRUE]

(* Mutant: cancel is called on success only, not deferred.                 *)
makeRequestCancelOnSuccess(t, request, outcome) ==
    LET c == NewContext(t)
    IN  IF outcome = "ok"
        THEN [response |-> Ptr([Body |-> [reply |-> request[1].Method]]),
              err |-> Nil, ctx |-> cancel(c), sent |-> request[1],
              calls |-> <<"NewContext", "Call", "cancel">>]
        ELSE [response |-> NilPtr, err |-> outcome, ctx |-> c,
              sent |-> request[1], calls |-> <<"NewContext", "Call">>]

(* makeRequest at time t: the transport's Call ends with `outcome`.        *)
makeRequest(t, request, outcome) ==
    LET c == NewContext(t)
        r == IF outcome = "ok"
             THEN [response |-> Ptr([Body |-> [reply |-> request[1].Method]]),
                   err |-> Nil]
             ELSE [response |-> NilPtr, err |-> outcome]
    IN  [response |-> r.response, err |-> r.err, ctx |-> cancel(c),
         sent |-> request[1],
         calls |-> <<"NewContext", "Call", "cancel">>]

----------------------------------------------------------------------------
(* The output sink                                                         *)

(* out.Fatalf: reports the error and terminates the run.                   *)
Fatalf(msg, err) ==
    /\ out' = Append(out, [op |-> "Fatalf", msg |-> msg, err |-> err])
    /\ pc' = "exited"

(* out.Printf.                                                             *)
Printf(v) == out' = Append(out, [op |-> "Printf", msg |-> "response", err |-> Nil])

----------------------------------------------------------------------------
(* runWithOptions, one action per statement                                *)

(* Mutant: the error of getMethodSpec is not checked.                      *)
GetMethodSpecStepNoCheck ==
    /\ pc = "getMethodSpec"
    /\ LET r == getMethodSpec(opts.ROpts) IN
         /\ opts' = [opts EXCEPT !.ROpts = r.ropts]
         /\ method' = r.spec
         /\ trace' = trace \o <<"getMethodSpec">> \o r.calls
         /\ pc' = "getTransport"
         /\ out' = out
    /\ UNCHANGED <<args, flags, opts0, transport, req, response, responseMap,
                   now, ctx, wire, bench>>

(* main.go:95-98 *)
GetMethodSpecStep ==
    /\ pc = "getMethodSpec"
    /\ LET r == getMethodSpec(opts.ROpts) IN
         /\ opts' = [opts EXCEPT !.ROpts = r.ropts]
         /\ method' = r.spec
         /\ trace' = trace \o <<"getMethodSpec">> \o r.calls
         /\ IF r.err # Nil
            THEN Fatalf("Failed while parsing input", r.err)
            ELSE pc' = "getTransport" /\ out' = out
    /\ UNCHANGED <<args, flags, opts0, transport, req, response, responseMap,
                   now, ctx, wire, bench>>

(* main.go:101-104 *)
GetTransportStep ==
    /\ pc = "getTransport"
    /\ \E ok \in BOOLEAN :
         /\ transport' = IF ok THEN Ptr([service |-> opts.TOpts.ServiceName])
                         ELSE NilPtr
         /\ IF ~ok
            THEN Fatalf("Failed while parsing options", "TransportOptionsError")
            ELSE pc' = "getRequest" /\ out' = out
    /\ trace' = Append(trace, "getTransport")
    /\ UNCHANGED <<args, flags, opts0, opts, method, req, response,
                   responseMap, now, ctx, wire, bench>>

(* main.go:107-110 *)
GetRequestStep ==
    /\ pc = "getRequest"
    /\ \E inputOK \in BOOLEAN, encodeOK \in BOOLEAN :
         LET r == getRequest(opts.ROpts, method, inputOK, encodeOK) IN
           /\ req' = r.req
           /\ trace' = trace \o <<"getRequest">> \o r.calls
           /\ IF r.err # Nil
              THEN Fatalf("Failed while parsing request input", r.err)
              ELSE pc' = "makeRequest" /\ out' = out
    /\ UNCHANGED <<args, flags, opts0, opts, method, transport, response,
                   responseMap, now, ctx, wire, bench>>

(* How the transport's Call can end.                                       *)
CallOutcomes == {"ok", "TransportError", "ConnectionError", "DeadlineExceeded"}

(* How long a Call started at time t can take: the transport gives up at   *)
(* the deadline.                                                           *)
Elapsed(t) ==
    {k * TickMs : k \in {j \in 0..MaxTicks :
                           j * TickMs <= Second /\ t + j * TickMs <= MaxTicks * TickMs}}

(* Mutant: the error of makeRequest is not checked.                        *)
MakeRequestStepNoCheck ==
    /\ pc = "makeRequest"
    /\ \E outcome \in CallOutcomes, d \in Elapsed(now) :
         LET r == makeRequest(now, req, outcome) IN
           /\ (now + d >= now + Second) => outcome = "DeadlineExceeded"
           /\ now' = now + d
           /\ response' = r.response
           /\ ctx' = Append(ctx, r.ctx)
           /\ wire' = Append(wire, r.sent)
           /\ trace' = trace \o <<"makeRequest">> \o r.calls
           /\ pc' = "decode"
           /\ out' = out
    /\ UNCHANGED <<args, flags, opts0, opts, method, transport, req,
                   responseMap, bench>>

(* main.go:112-115 *)
MakeRequestStep ==
    /\ pc = "makeRequest"
    /\ \E outcome \in CallOutcomes, d \in Elapsed(now) :
         LET r == makeRequest(now, req, outcome) IN
           /\ (now + d >= now + Second) => outcome = "DeadlineExceeded"
           /\ now' = now + d
           /\ response' = r.response
           /\ ctx' = Append(ctx, r.ctx)
           /\ wire' = Append(wire, r.sent)
           /\ trace' = trace \o <<"makeRequest">> \o r.calls
           /\ IF r.err # Nil
              THEN Fatalf("Failed while making call", r.err)
              ELSE pc' = "decode" /\ out' = out
    /\ UNCHANGED <<args, flags, opts0, opts, method, transport, req,
                   responseMap, bench>>

(* Mutant: the decoded response is not printed.                            *)
DecodeStepNoPrint ==
    /\ pc = "decode"
    /\ \E ok \in BOOLEAN :
         /\ responseMap' = IF ok THEN Ptr(response[1].Body) ELSE NilPtr
         /\ IF ~ok
            THEN Fatalf("Failed while parsing response", "DecodingError")
            ELSE pc' = "runBenchmark" /\ out' = out
    /\ trace' = Append(trace, "ResponseBytesToMap")
    /\ UNCHANGED <<args, flags, opts0, opts, method, transport, req, response,
                   now, ctx, wire, bench>>

(* main.go:118-121 *)
DecodeStep ==
    /\ pc = "decode"
    /\ \E ok \in BOOLEAN :
         /\ responseMap' = IF ok THEN Ptr(response[1].Body) ELSE NilPtr
         /\ IF ~ok
            THEN Fatalf("Failed while parsing response", "DecodingError")
            ELSE pc' = "print" /\ out' = out
    /\ trace' = Append(trace, "ResponseBytesToMap")
    /\ UNCHANGED <<args, flags, opts0, opts, method, transport, req, response,
                   now, ctx, wire, bench>>

(* main.go:124-128 *)
PrintStep ==
    /\ pc = "print"
    /\ \E ok \in BOOLEAN :
         IF ~ok
         THEN /\ Fatalf("Failed to convert map to JSON", "MarshalError")
              /\ trace' = Append(trace, "MarshalIndent")
         ELSE /\ Printf(responseMap)
              /\ trace' = trace \o <<"MarshalIndent", "Printf">>
              /\ pc' = "runBenchmark"
    /\ UNCHANGED <<args, flags, opts0, opts, method, transport, req, response,
                   responseMap, now, ctx, wire, bench>>

(* runBenchmark: the engine starts when benchmark options are present.     *)
runBenchmark(o, m) ==
    [method |-> m.method, req |-> m.req, started |-> o.BOpts.Enabled]

(* main.go:130-133 *)
RunBenchmarkStep ==
    /\ pc = "runBenchmark"
    /\ bench' = Append(bench, runBenchmark(opts, [method |-> method, req |-> req]))
    /\ trace' = Append(trace, "runBenchmark")
    /\ pc' = "done"
    /\ UNCHANGED <<args, flags, opts0, opts, method, transport, req, response,
                   responseMap, out, now, ctx, wire>>

(* Time passes while the run is in progress.                               *)
Tick ==
    /\ pc \notin {"main", "done", "exited"}
    /\ now < MaxTicks * TickMs
    /\ now' = now + TickMs
    /\ UNCHANGED <<pc, args, flags, opts0, opts, method, transport, req,
                   response, responseMap, out, trace, ctx, wire, bench>>

----------------------------------------------------------------------------
(* main                                                                    *)

(* The Options struct.                                                     *)
Options(svc, m, json, file, health, bm) ==
    [TOpts |-> [ServiceName |-> svc],
     ROpts |-> [MethodName |-> m, RequestJSON |-> json, ThriftFile |-> file,
                Health |-> health],
     BOpts |-> [Enabled |-> bm]]

(* main.go:86-89: the options main passes to runWithOptions.               *)
applyPositionals(o, remaining) ==
    [o EXCEPT !.TOpts.ServiceName = fromPositional(remaining, 0, @),
              !.ROpts.MethodName = fromPositional(remaining, 1, @),
              !.ROpts.RequestJSON = fromPositional(remaining, 2, @)]

(* main.go:59-90 *)
Main ==
    /\ pc = "main"
    /\ \/ (* no arguments at all: the help is written *)
          /\ args = <<>>
          /\ flags = Options(<<>>, <<>>, <<>>, "", FALSE, FALSE)
          /\ opts0' = opts0 /\ opts' = opts
          /\ trace' = Append(trace, "WriteHelp")
          /\ pc' = "done"
       \/ (* parser.Parse fails *)
          /\ opts0' = opts0 /\ opts' = opts
          /\ trace' = Append(trace, "log.Fatalf")
          /\ pc' = "exited"
       \/ /\ opts0' = applyPositionals(flags, args)
          /\ opts' = opts0'
          /\ trace' = Append(trace, "runWithOptions")
          /\ pc' = "getMethodSpec"
    /\ UNCHANGED <<args, flags, method, transport, req, response, responseMap,
                   out, now, ctx, wire, bench>>

----------------------------------------------------------------------------
(* Specifications                                                          *)

InitRest ==
    /\ method = NilPtr
    /\ transport = NilPtr
    /\ req = NilPtr
    /\ response = NilPtr
    /\ responseMap = NilPtr
    /\ out = <<>>
    /\ trace = <<>>
    /\ now = 0
    /\ ctx = <<>>
    /\ wire = <<>>
    /\ bench = <<>>

(* runWithOptions called with any options.                                 *)
Init ==
    /\ pc = "getMethodSpec"
    /\ args = <<>>
    /\ \E m \in Strings(MaxLen), file \in Paths, health \in BOOLEAN,
          bm \in BOOLEAN :
         opts0 = Options(<<"Foo">>, m, <<>>, file, health, bm)
    /\ flags = opts0
    /\ opts = opts0
    /\ InitRest

Next ==
    \/ GetMethodSpecStep
    \/ GetTransportStep
    \/ GetRequestStep
    \/ MakeRequestStep
    \/ DecodeStep
    \/ PrintStep
    \/ RunBenchmarkStep
    \/ Tick

Spec == Init /\ [][Next]_vars

(* The values a flag or a positional argument takes.                       *)
ArgStrings == {<<>>, <<"bar">>, <<"Foo", ".", "bar">>}

ArgLists == UNION {[1..k -> ArgStrings] : k \in 0..MaxArgs}

(* main after flag parsing.                                                *)
InitMain ==
    /\ pc = "main"
    /\ args \in ArgLists
    /\ \E svc \in ArgStrings, m \in ArgStrings, json \in ArgStrings,
          file \in {"", "ok.thrift"}, bm \in BOOLEAN :
         flags = Options(svc, m, json, file, FALSE, bm)
    /\ opts0 = flags
    /\ opts = flags
    /\ InitRest

NextMain == Main \/ Next

SpecMain == InitMain /\ [][NextMain]_vars

----------------------------------------------------------------------------
(* Properties                                                              *)

Has(seq, e) == \E i \in 1..Len(seq) : seq[i] = e

Count(seq, e) == Cardinality({i \in 1..Len(seq) : seq[i] = e})

(* The index of the first e in seq, 0 when there is none.                  *)
First(seq, e) ==
    IF Has(seq, e) THEN CHOOSE i \in 1..Len(seq) :
                          seq[i] = e /\ \A j \in 1..(i - 1) : seq[j] # e
    ELSE 0

Printed == \E i \in 1..Len(out) : out[i].op = "Printf"

ResolutionCalls == {"isFileMissing", "Parse", "SplitMethod", "findService",
                    "findMethod"}

Returned == Has(trace, "getMethodSpec")

(* C1: with the health flag and a method name, getMethodSpec fails with    *)
(* errHealthAndMethod and no descriptor whatever the Thrift file is, and   *)
(* the run ends without the transport's Call being invoked.                *)
C1_HealthAndMethod ==
    (opts0.ROpts.Health /\ opts0.ROpts.MethodName # <<>>) =>
        /\ ~Has(trace, "Call")
        /\ wire = <<>>
        /\ Returned =>
             /\ pc = "exited"
             /\ method = NilPtr
             /\ Len(out) = 1
             /\ out[1].op = "Fatalf"
             /\ out[1].err = "cannot specify method name and use --health"
             /\ \A e \in ResolutionCalls \cup {"getHealthSpec"} : ~Has(trace, e)

C1_Witness ==
    /\ opts0.ROpts.Health
    /\ opts0.ROpts.MethodName = <<"Foo", ".", "bar">>
    /\ opts0.ROpts.ThriftFile = "ok.thrift"
    /\ pc = "exited"

PreflightMsgs == {"Failed while parsing input", "Failed while parsing options",
                  "Failed while parsing request input"}

(* C2: a failed pre-flight step (method resolution, transport             *)
(* construction, request reading or encoding) is reported exactly once    *)
(* through Fatalf, the run ends there and Call is never invoked.          *)
C2_PreflightFatal ==
    LET failed == \/ Returned /\ method = NilPtr
                  \/ Has(trace, "getTransport") /\ transport = NilPtr
                  \/ Has(trace, "getRequest") /\ req = NilPtr
    IN  /\ failed =>
             /\ pc = "exited"
             /\ ~ENABLED Next
             /\ Len(out) = 1
             /\ out[1].op = "Fatalf"
             /\ out[1].msg \in PreflightMsgs
             /\ ~Has(trace, "Call")
             /\ wire = <<>>
        /\ (Returned /\ method = NilPtr) =>
             /\ out[1].msg = "Failed while parsing input"
             /\ ~Has(trace, "getTransport")
        /\ (Has(trace, "getTransport") /\ transport = NilPtr) =>
             /\ out[1].msg = "Failed while parsing options"
             /\ ~Has(trace, "getRequest")
        /\ (Has(trace, "getRequest") /\ req = NilPtr) =>
             out[1].msg = "Failed while parsing request input"
        /\ (Returned /\ getMethodSpec(opts0.ROpts).err # Nil) => method = NilPtr

(* "bar.Foo" against ok.thrift, which declares no service bar.             *)
C2_Witness ==
    /\ ~opts0.ROpts.Health
    /\ opts0.ROpts.ThriftFile = "ok.thrift"
    /\ opts0.ROpts.MethodName = <<"bar", ".", "Foo">>
    /\ pc = "exited"
    /\ out[1].err = "ResolutionError: service"

(* C3: without the health flag, an empty Thrift path and a path to a       *)
(* nonexistent file are both rejected with an error; nothing is parsed,    *)
(* no service or method is looked up and no descriptor is returned.        *)
C3_ThriftFileChecks ==
    (~opts0.ROpts.Health /\ Returned) =>
        /\ opts0.ROpts.ThriftFile = "" =>
             /\ pc = "exited"
             /\ out[1].op = "Fatalf"
             /\ out[1].err = "specify a Thrift file using --thrift"
             /\ method = NilPtr
             /\ \A e \in ResolutionCalls : ~Has(trace, e)
        /\ (opts0.ROpts.ThriftFile # "" /\ Stat(opts0.ROpts.ThriftFile) = "ENOENT") =>
             /\ pc = "exited"
             /\ out[1].op = "Fatalf"
             /\ out[1].err = "cannot find Thrift file"
             /\ method = NilPtr
             /\ \A e \in ResolutionCalls \ {"isFileMissing"} : ~Has(trace, e)

C3_Witness ==
    /\ ~opts0.ROpts.Health
    /\ opts0.ROpts.ThriftFile = "missing.thrift"
    /\ opts0.ROpts.MethodName = <<"Foo", ".", "bar">>
    /\ pc = "exited"

(* C4: when the one-shot Call returns an error or the response cannot be   *)
(* decoded, the error goes to Fatalf at once and the run ends: nothing is  *)
(* printed through Printf and runBenchmark is not started.                 *)
C4_CallFatal ==
    /\ (Has(trace, "Call") /\ response = NilPtr) =>
         /\ pc = "exited"
         /\ ~ENABLED Next
         /\ Len(out) = 1
         /\ out[1].op = "Fatalf"
         /\ out[1].msg = "Failed while making call"
         /\ trace[Len(trace) - 1] = "Call"
         /\ ~Has(trace, "ResponseBytesToMap")
         /\ ~Printed
         /\ bench = <<>>
         /\ ~Has(trace, "runBenchmark")
    /\ (Has(trace, "ResponseBytesToMap") /\ responseMap = NilPtr) =>
         /\ pc = "exited"
         /\ ~ENABLED Next
         /\ Len(out) = 1
         /\ out[1].op = "Fatalf"
         /\ out[1].msg = "Failed while parsing response"
         /\ trace[Len(trace)] = "ResponseBytesToMap"
         /\ ~Printed
         /\ bench = <<>>
         /\ ~Has(trace, "runBenchmark")

C4_Witness ==
    /\ pc = "exited"
    /\ Has(trace, "Call")
    /\ response = NilPtr
    /\ out[1].err = "TransportError"

(* C5: with the health flag and no method name, getMethodSpec returns the  *)
(* fixed health descriptor whatever the Thrift file path is; the file is   *)
(* not checked for existence or parsed and nothing is looked up.           *)
C5_HealthSpec ==
    (opts0.ROpts.Health /\ opts0.ROpts.MethodName = <<>> /\ Returned) =>
        /\ method = <<[service |-> <<"Meta">>, name |-> <<"health">>,
                       health |-> TRUE]>>
        /\ pc # "exited" \/ out[1].msg # "Failed while parsing input"
        /\ \A e \in ResolutionCalls : ~Has(trace, e)
        /\ trace[2] = "getHealthSpec"

C5_Witness ==
    /\ opts0.ROpts.Health
    /\ opts0.ROpts.MethodName = <<>>
    /\ opts0.ROpts.ThriftFile = "missing.thrift"
    /\ pc = "done"

Order == <<"getMethodSpec", "getTransport", "getRequest", "RequestToBytes",
           "makeRequest", "Call", "ResponseBytesToMap", "MarshalIndent",
           "Printf", "runBenchmark">>

(* C6: the steps of a run happen in the order resolve, encode, send once,  *)
(* decode, display; Call is invoked exactly once before the benchmark,     *)
(* which starts only after the reply was printed and only with benchmark   *)
(* options, on the descriptor and the encoded request of the one-shot call *)
(* (the request is encoded once).                                          *)
C6_Order ==
    /\ \A j \in 1..Len(Order) :
         /\ Count(trace, Order[j]) <= 1
         /\ \A i \in 1..(j - 1) :
              Has(trace, Order[j]) =>
                  /\ Has(trace, Order[i])
                  /\ First(trace, Order[i]) < First(trace, Order[j])
    /\ Len(wire) = Count(trace, "Call")
    /\ Len(bench) = Count(trace, "runBenchmark")
    /\ Printed <=> Has(trace, "Printf")
    /\ Has(trace, "Call") =>
         /\ method # NilPtr
         /\ req = <<wire[1]>>
         /\ wire[1].Body.method = method
    /\ Has(trace, "Printf") => responseMap # NilPtr
    /\ Has(trace, "runBenchmark") =>
         /\ Count(trace, "Call") = 1
         /\ Count(trace, "RequestToBytes") = 1
         /\ out[Len(out)].op = "Printf"
         /\ bench[1].method = method
         /\ bench[1].req = <<wire[1]>>
         /\ bench[1].started = opts0.BOpts.Enabled

C6_Witness ==
    /\ pc = "done"
    /\ Len(bench) = 1
    /\ bench[1].started
    /\ ~opts0.ROpts.Health
    /\ bench[1].req[1].Method = <<"Foo", ".", "bar">>

(* C7: every call makeRequest issues runs under a deadline one second from *)
(* the moment of the call, whatever the options are, and the context is    *)
(* cancelled on return, whether the call succeeded or failed.              *)
C7_Deadline ==
    /\ Len(ctx) = Count(trace, "Call")
    /\ Count(trace, "NewContext") = Count(trace, "Call")
    /\ \A i \in 1..Len(ctx) :
         /\ ctx[i].deadline = ctx[i].start + 1000
         /\ ctx[i].cancelled
         /\ ctx[i].start <= now
    /\ (pc = "makeRequest") => ctx = <<>>

C7_Witness ==
    /\ Len(ctx) = 1
    /\ ctx[1].start = 500
    /\ response = NilPtr
    /\ pc = "exited"
    /\ opts0.ROpts.Health

(* C8: the Method of the request sent is the method name the options hold  *)
(* after method resolution: the health method name that getMethodSpec      *)
(* wrote into the options in health mode, and otherwise the user's method  *)
(* reference unchanged (the options are left as they were), not the method *)
(* part of the split reference.                                            *)
C8_RequestMethod ==
    /\ req # NilPtr => req[1].Method = opts.ROpts.MethodName
    /\ \A i \in 1..Len(wire) : wire[i].Method = opts.ROpts.MethodName
    /\ (opts0.ROpts.Health /\ Returned /\ method # NilPtr) =>
         /\ opts = [opts0 EXCEPT !.ROpts.MethodName = <<"Meta", ".", "health">>]
         /\ req # NilPtr => req[1].Method = <<"Meta", ".", "health">>
    /\ ~opts0.ROpts.Health =>
         /\ opts = opts0
         /\ req # NilPtr => req[1].Method = opts0.ROpts.MethodName

C8_Witness ==
    /\ ~opts0.ROpts.Health
    /\ opts0.ROpts.MethodName = <<"Foo", ".", "bar">>
    /\ Len(wire) = 1
    /\ wire[1].Method = <<"Foo", ".", "bar">>
    /\ method[1].name = <<"bar">>

(* The checks of getMethodSpec in their order, each with the call it makes *)
(* ("" for none) and whether it fails on the request options ro.           *)
Checks(ro) ==
    LET p == Parse(ro.ThriftFile)
        sm == SplitMethod(ro.MethodName)
        fs == findService(p.parsed, sm.svc)
        fm == findMethod(fs.service, sm.method)
    IN  << [call |-> "", fails |-> ro.Health /\ ro.MethodName # <<>>,
            err |-> "cannot specify method name and use --health"],
           [call |-> "", fails |-> ro.ThriftFile = "",
            err |-> "specify a Thrift file using --thrift"],
           [call |-> "isFileMissing", fails |-> Stat(ro.ThriftFile) = "ENOENT",
            err |-> "cannot find Thrift file"],
           [call |-> "Parse", fails |-> p.err # Nil,
            err |-> "could not parse Thrift file"],
           [call |-> "SplitMethod", fails |-> sm.err # Nil, err |-> sm.err],
           [call |-> "findService", fails |-> fs.err # Nil, err |-> fs.err],
           [call |-> "findMethod", fails |-> fm.err # Nil, err |-> fm.err] >>

(* The calls of the first n checks.                                        *)
RECURSIVE CallsOf(_, _)
CallsOf(cs, n) ==
    IF n = 0 THEN <<>>
    ELSE CallsOf(cs, n - 1) \o (IF cs[n].call = "" THEN <<>> ELSE <<cs[n].call>>)

(* C9: getMethodSpec checks, in this order, the health/method conflict,    *)
(* the empty Thrift path, the missing file, the parse, the split of the    *)
(* method reference, the service and the method; it returns the error of   *)
(* the first check that fails and runs nothing after it; the descriptor is *)
(* non-nil exactly when the error is nil, and the method is only looked up *)
(* in a service found in a file that parsed.                               *)
C9_CheckOrder ==
    Returned =>
        LET ro == opts0.ROpts
            cs == Checks(ro)
            r == getMethodSpec(ro)
            made == SubSeq(trace, 2, 1 + Len(r.calls))
            failing == {k \in 1..Len(cs) :
                          cs[k].fails /\ \A i \in 1..(k - 1) : ~cs[i].fails}
        IN  /\ made = r.calls
            /\ (method # NilPtr) <=> (pc # "exited" \/ out[1].msg # "Failed while parsing input")
            /\ (r.spec # NilPtr) <=> (r.err = Nil)
            /\ method = r.spec
            /\ (~ro.Health) =>
                 /\ \A k \in failing :
                      /\ r.err = cs[k].err
                      /\ made = CallsOf(cs, k)
                      /\ out[1].err = cs[k].err
                 /\ failing = {} => (r.err = Nil /\ made = CallsOf(cs, Len(cs)))
            /\ (ro.Health /\ cs[1].fails) => (r.err = cs[1].err /\ made = <<>>)
            /\ Has(made, "findMethod") =>
                 /\ Parse(ro.ThriftFile).err = Nil
                 /\ findService(Parse(ro.ThriftFile).parsed,
                                SplitMethod(ro.MethodName).svc).err = Nil

(* "Foo.Foo" against ok.thrift: the service is found, the method is not.   *)
C9_Witness ==
    /\ ~opts0.ROpts.Health
    /\ opts0.ROpts.ThriftFile = "ok.thrift"
    /\ opts0.ROpts.MethodName = <<"Foo", ".", "Foo">>
    /\ pc = "exited"
    /\ out[1].err = "ResolutionError: method"
    /\ trace = <<"getMethodSpec", "isFileMissing", "Parse", "SplitMethod",
                 "findService", "findMethod">>

(* What a positional argument does to an option set to s by the flags.     *)
Positional(a, index, s) ==
    IF index < Len(a) /\ a[index + 1] # <<>> /\ s = <<>> THEN a[index + 1] ELSE s

(* C10: fromPositional overwrites its target only when the argument at the *)
(* index exists, is non-empty and the target is empty, so a flag wins over *)
(* a positional; after main's three calls, positionals 0, 1 and 2 affect   *)
(* only the service name, the method name and the request body.            *)
C10_Positional ==
    /\ \A index \in 0..MaxArgs, s \in ArgStrings :
         fromPositional(args, index, s) = Positional(args, index, s)
    /\ Has(trace, "runWithOptions") =>
         /\ opts0.TOpts.ServiceName = Positional(args, 0, flags.TOpts.ServiceName)
         /\ opts0.ROpts.MethodName = Positional(args, 1, flags.ROpts.MethodName)
         /\ opts0.ROpts.RequestJSON = Positional(args, 2, flags.ROpts.RequestJSON)
         /\ opts0.ROpts.ThriftFile = flags.ROpts.ThriftFile
         /\ opts0.ROpts.Health = flags.ROpts.Health
         /\ opts0.BOpts = flags.BOpts
         /\ (flags.TOpts.ServiceName # <<>>) =>
              opts0.TOpts.ServiceName = flags.TOpts.ServiceName
         /\ (flags.ROpts.MethodName # <<>>) =>
              opts0.ROpts.MethodName = flags.ROpts.MethodName
         /\ (flags.ROpts.RequestJSON # <<>>) =>
              opts0.ROpts.RequestJSON = flags.ROpts.RequestJSON

C10_Witness ==
    /\ Has(trace, "runWithOptions")
    /\ Len(args) = 3
    /\ args[1] = <<"bar">>
    /\ args[2] = <<"Foo", ".", "bar">>
    /\ args[3] # <<>>
    /\ flags.TOpts.ServiceName = <<"Foo", ".", "bar">>
    /\ flags.ROpts.MethodName = <<>>
    /\ opts0.TOpts.ServiceName = <<"Foo", ".", "bar">>
    /\ opts0.ROpts.MethodName = <<"Foo", ".", "bar">>

====
